---- MODULE Spec2Model ----
(***************************************************************************)
(* PDEVisualizer (code1.py): a renderer that holds a configuration and     *)
(* draws a time x space x space field as a static contour, an animated     *)
(* contour and a grid of snapshots.                                        *)
(*                                                                         *)
(* Units.  Field values, grid coordinates and angles are fixed-point       *)
(* hundredths (VScale); time values are ten-thousandths (TScale), so that  *)
(* the ":.3f" formatting of a time value is a real rounding.  The          *)
(* trigonometric and exponential functions of generate_sample_data are     *)
(* fixed-point approximations; nothing checked below rests on their        *)
(* numerical values, only on shapes, extrema and indices.                  *)
(*                                                                         *)
(* Figures.  fig is the figure created by the most recent rendering call   *)
(* (pyplot's current figure) and anim the animation bound to it.  The      *)
(* caller shows each figure (plt.show(), whose event loop steps a shown    *)
(* animation and which returns when the figure is closed) before making    *)
(* the next call; an exception ends the program.  A rendering call reads   *)
(* only the configuration, the data and its arguments, so the figure it    *)
(* creates is the same whatever was drawn before it.  Each contourf or     *)
(* contour call adds one artist to its axes.  The number of levels, the    *)
(* frame interval and the title prefix, on which no control flow depends,  *)
(* are left out.                                                           *)
(***************************************************************************)
EXTENDS Integers, Sequences, FiniteSets, TLC

VARIABLES figsize, dpi, custom_cmap,  \* render configuration (self.*)
          loaded, X, Y, t, u,         \* the caller's data: grids, times, field
          call,                       \* the most recent call: op, args, status
          io,                         \* side effects of that call, in order
          fig,                        \* the figure that call created
          anim                        \* the animation bound to fig, if any

vars == <<figsize, dpi, custom_cmap, loaded, X, Y, t, u, call, io, fig, anim>>
config == <<figsize, dpi, custom_cmap>>
data == <<X, Y, t, u>>

----------------------------------------------------------------------------
(* Bounds of the model *)
MaxNx == 2
MaxNy == 2
MaxNt == 4
MaxSnaps == 5
IdxSlack == 2

(* Program constants *)
DemoNt == 25
TwoPi == 628
TEnd == 20000
VScale == 100
TScale == 10000
NBins == 256

NONE == "None"

Min2(a, b) == IF a < b THEN a ELSE b

----------------------------------------------------------------------------
(* Python / numpy indexing: u[i] accepts -len <= i < len and counts a      *)
(* negative i from the end; anything else raises IndexError.               *)
InRangeStrict(seq, i) == 0 <= i /\ i < Len(seq)

InRange(seq, i) == (0 - Len(seq)) <= i /\ i < Len(seq)

PyIndex(seq, i) == IF i >= 0 THEN seq[i + 1] ELSE seq[Len(seq) + i + 1]

(* Python truthiness of an optional path: None and "" are falsy. *)
Truthy(p) == p # NONE /\ p # ""

(* f"{x:.3f}": a time value in ten-thousandths rounded to thousandths. *)
Fmt3(x) == (x + 5) \div 10

----------------------------------------------------------------------------
(* numpy.linspace(start, stop, n), 0-based entry i *)
LinspaceAt(start, stop, n, i) ==
    IF n = 1 THEN start ELSE start + (i * (stop - start)) \div (n - 1)

Linspace(start, stop, n) == [i \in 1..n |-> LinspaceAt(start, stop, n, i - 1)]

(* numpy.meshgrid(x, y) with the default 'xy' indexing: both results have  *)
(* shape (len(y), len(x)).                                                 *)
MeshgridIJ(x, y) ==
    [gx |-> [i \in 1..Len(x) |-> [j \in 1..Len(y) |-> x[i]]],
     gy |-> [i \in 1..Len(x) |-> [j \in 1..Len(y) |-> y[j]]]]

Meshgrid(x, y) ==
    [gx |-> [j \in 1..Len(y) |-> [i \in 1..Len(x) |-> x[i]]],
     gy |-> [j \in 1..Len(y) |-> [i \in 1..Len(x) |-> y[j]]]]

(* sin on [0, pi] in hundredths (Bhaskara's rational approximation) *)
SinHalf(r) ==
    LET p == TwoPi \div 2
        q == r * (p - r)
    IN  (16 * q * VScale) \div (5 * p * p - 4 * q)

Sin(a) ==
    LET r == a % TwoPi
    IN  IF r <= TwoPi \div 2 THEN SinHalf(r) ELSE 0 - SinHalf(r - TwoPi \div 2)

Cos(a) == Sin(a + TwoPi \div 4)

(* exp(-0.1 * tau), tau in hundredths, second-order expansion *)
ExpDecay(tau) == VScale - tau \div 10 + (tau * tau) \div (200 * VScale)

Mul(a, b) == (a * b) \div VScale

(* One entry of u[i]: lines 58 and 60 *)
SampleValue(x, y, time) ==
    LET tau == (time * VScale) \div TScale
    IN  Mul(Mul(Sin(x + tau), Cos(y + tau \div 2)), ExpDecay(tau))
        + Mul(Mul(30, Sin(2 * x - tau)), Sin(y + tau))

SampleField(GX, GY, tt) ==
    [i \in 1..Len(tt) |->
        [j \in 1..Len(GX) |->
            [k \in 1..Len(GX[j]) |-> SampleValue(GX[j][k], GY[j][k], tt[i])]]]

----------------------------------------------------------------------------
(* u.min(), u.max() over the whole tensor *)
Values(uu) ==
    {uu[i][j][k] : i \in DOMAIN uu, j \in DOMAIN uu[1], k \in DOMAIN uu[1][1]}

SetMin(S) == CHOOSE m \in S : \A x \in S : m <= x
SetMax(S) == CHOOSE m \in S : \A x \in S : m >= x

GlobalScale(uu) == [vmin |-> SetMin(Values(uu)), vmax |-> SetMax(Values(uu))]

(* contour artists: what was drawn, and with which colour scale *)
AutoScale == [auto |-> TRUE, vmin |-> 0, vmax |-> 0]
FixedScale(s) == [auto |-> FALSE, vmin |-> s.vmin, vmax |-> s.vmax]

Filled(z, scale) == [kind |-> "contourf", z |-> z, scale |-> scale]
Lines(z) == [kind |-> "contour", z |-> z, scale |-> AutoScale]

NoTitle == [kind |-> "none", val |-> 0]
BlankAxes == [collections |-> <<>>, title |-> NoTitle, visible |-> TRUE]

NoFig == [size |-> <<0, 0>>, dpi |-> 0, rows |-> 0, cols |-> 0,
          axes |-> <<>>, colorbar |-> 0]
NoAnim == [mode |-> "none", next |-> 0, pass |-> <<>>,
           vmin |-> 0, vmax |-> 0, gif_name |-> NONE]

(* plt.subplots(rows, cols, figsize=size, dpi=dpi) *)
Subplots(rows, cols, size, d) ==
    [size |-> size, dpi |-> d, rows |-> rows, cols |-> cols,
     axes |-> [i \in 1..(rows * cols) |-> BlankAxes], colorbar |-> 0]

SaveFig(path) == [ev |-> "savefig", path |-> path]
PrintMsg(path) == [ev |-> "print", path |-> path]
MakeDirs(path) == [ev |-> "makedirs", path |-> path]

----------------------------------------------------------------------------
(* PDEVisualizer(figsize=(12, 8), dpi=100) and setup_colormap *)
Init ==
    /\ figsize = <<12, 8>>
    /\ dpi = 100
    /\ custom_cmap = [name |-> "custom_coolwarm",
                      colors |-> <<"#2E86AB", "#A23B72", "#F18F01", "#C73E1D">>,
                      N |-> NBins]
    /\ loaded = FALSE
    /\ X = <<>> /\ Y = <<>> /\ t = <<>> /\ u = <<>>
    /\ call = [op |-> "__init__", status |-> "ok", args |-> <<>>]
    /\ io = <<>>
    /\ fig = NoFig
    /\ anim = NoAnim

(* X, Y, t, u = visualizer.generate_sample_data(nx, ny, nt) *)
generate_sample_data(nx, ny, nt) ==
    /\ ~loaded
    /\ LET x == Linspace(0, TwoPi, nx)
           y == Linspace(0, TwoPi, ny)
           g == Meshgrid(x, y)
           tt == Linspace(0, TEnd, nt)
       IN  /\ X' = g.gx
           /\ Y' = g.gy
           /\ t' = tt
           /\ u' = SampleField(g.gx, g.gy, tt)
    /\ loaded' = TRUE
    /\ call' = [op |-> "generate_sample_data", status |-> "ok",
                args |-> [nx |-> nx, ny |-> ny, nt |-> nt]]
    /\ UNCHANGED <<config, io, fig, anim>>


(* Data from an external source ("replace this with your actual DeepONet   *)
(* results"): a 2 x 2 grid, nt frames, shape-compatible with t.            *)
ExtFrames == { <<<<-100, 0>>, <<50, 100>>>>, <<<<0, 250>>, <<-300, 0>>>> }
ExtFields == UNION {[1..n -> ExtFrames] : n \in 1..MaxNt}

LoadExternal(field) ==
    /\ ~loaded
    /\ LET g == Meshgrid(Linspace(0, TwoPi, 2), Linspace(0, TwoPi, 2))
       IN  X' = g.gx /\ Y' = g.gy
    /\ t' = [i \in 1..Len(field) |-> (i - 1) * 3333]
    /\ u' = field
    /\ loaded' = TRUE
    /\ call' = [op |-> "load", status |-> "ok", args |-> <<>>]
    /\ UNCHANGED <<config, io, fig, anim>>

(* What no rendering operation assigns: self.figsize, self.dpi,            *)
(* self.custom_cmap and the arrays passed in.                              *)
RenderFrameResizing ==
    /\ figsize' = <<figsize[1] \div 2, figsize[2] \div 2>>
    /\ UNCHANGED <<dpi, custom_cmap, loaded, data>>

RenderFrame == UNCHANGED <<config, loaded, data>>

(* A rendering call can be made once data exists and the call before it    *)
(* has returned and its figure has been shown.                             *)
CanCall == loaded /\ call.op \in {"generate_sample_data", "load", "show"}

----------------------------------------------------------------------------
(* create_static_contour(X, Y, u, time_idx, title, save_path) *)
StaticAxes(z, time_idx) ==
    [collections |-> <<Filled(z, AutoScale), Lines(z)>>,
     title |-> [kind |-> "index", val |-> time_idx],
     visible |-> TRUE]

StaticEffectsAlways(save_path) ==
    <<SaveFig(<<save_path>>), PrintMsg(<<save_path>>)>>

StaticEffects(save_path) ==
    IF Truthy(save_path)
    THEN <<SaveFig(<<save_path>>), PrintMsg(<<save_path>>)>>
    ELSE <<>>

create_static_contour(time_idx, save_path) ==
    /\ CanCall
    /\ LET f == Subplots(1, 1, figsize, dpi)
           args == [time_idx |-> time_idx, save_path |-> save_path]
       IN  IF ~InRange(u, time_idx)
           THEN /\ fig' = f
                /\ io' = <<>>
                /\ call' = [op |-> "create_static_contour",
                            status |-> "IndexError", args |-> args]
           ELSE /\ fig' = [f EXCEPT
                            !.axes[1] = StaticAxes(PyIndex(u, time_idx), time_idx),
                            !.colorbar = 1]
                /\ io' = StaticEffects(save_path)
                /\ call' = [op |-> "create_static_contour",
                            status |-> "ok", args |-> args]
    /\ anim' = NoAnim
    /\ RenderFrame

----------------------------------------------------------------------------
(* create_animated_contour(X, Y, t, u, title, save_gif, gif_name) up to    *)
(* the construction of the FuncAnimation                                   *)
TimeTitle(x) == [kind |-> "time", val |-> Fmt3(x)]

FramesOff(tt) == Len(tt) + 1

Frames(tt) == Len(tt)

create_animated_contour(save_gif, gif_name) ==
    /\ CanCall
    /\ LET scale == GlobalScale(u)
           f == Subplots(1, 1, figsize, dpi)
       IN  /\ fig' = [f EXCEPT
                       !.axes[1] = [collections |->
                                        <<Filled(PyIndex(u, 0), FixedScale(scale))>>,
                                    title |-> TimeTitle(PyIndex(t, 0)),
                                    visible |-> TRUE],
                       !.colorbar = 1]
           /\ anim' = [mode |-> IF save_gif THEN "saving" ELSE "shown",
                       next |-> 0, pass |-> <<>>,
                       vmin |-> scale.vmin, vmax |-> scale.vmax,
                       gif_name |-> gif_name]
    /\ io' = <<>>
    /\ call' = [op |-> "create_animated_contour",
                status |-> IF save_gif THEN "running" ELSE "ok",
                args |-> [save_gif |-> save_gif, gif_name |-> gif_name]]
    /\ RenderFrame

(* for collection in ax.collections: collection.remove()                   *)
(* ax.collections is a view whose iterator walks a copy of the children,   *)
(* so every artist present when the loop starts is removed.                *)
RECURSIVE RemoveEach(_, _)
RemoveEach(live, todo) ==
    IF todo = <<>> THEN live
    ELSE LET c == Head(todo)
             Keep(x) == x # c
         IN  RemoveEach(SelectSeq(live, Keep), Tail(todo))

ClearCollectionsLive(cols) == [i \in 1..(Len(cols) \div 2) |-> cols[2 * i]]

ClearCollections(cols) == RemoveEach(cols, cols)

(* The body of animate(frame) on the closure's ax and title_text *)
AnimateAxesLocalScale(ax, frame, scale) ==
    LET z == PyIndex(u, frame)
        s == GlobalScale(<<z>>)
    IN  [ax EXCEPT
          !.collections = Append(Append(ClearCollections(ax.collections),
                                        Filled(z, FixedScale(s))), Lines(z)),
          !.title = TimeTitle(PyIndex(t, frame))]

AnimateAxes(ax, frame, scale) ==
    LET z == PyIndex(u, frame)
    IN  [ax EXCEPT
          !.collections = Append(Append(ClearCollections(ax.collections),
                                        Filled(z, FixedScale(scale))), Lines(z)),
          !.title = TimeTitle(PyIndex(t, frame))]

(* One step of the animation: the engine takes the next item of            *)
(* range(frames) and calls animate with it; with repeat=True a shown       *)
(* animation starts over after the last frame.                             *)
animate ==
    /\ anim.mode \in {"saving", "shown"}
    /\ anim.next < Frames(t)
    /\ LET frame == anim.next
           scale == [vmin |-> anim.vmin, vmax |-> anim.vmax]
       IN  /\ anim' = [anim EXCEPT
                        !.pass = IF Len(anim.pass) >= Len(t) THEN <<frame>>
                                 ELSE Append(anim.pass, frame),
                        !.next = IF anim.mode = "shown"
                                 THEN (frame + 1) % Frames(t)
                                 ELSE frame + 1]
           /\ IF InRange(u, frame)
              THEN fig' = [fig EXCEPT !.axes[1] = AnimateAxes(fig.axes[1], frame, scale)]
              ELSE fig' = fig
    /\ RenderFrame
    /\ UNCHANGED <<call, io>>

(* The end of anim.save(gif_name, writer, dpi) and the print after it:     *)
(* the writer has grabbed every frame of range(frames).                    *)
SaveEffects(gif_name) == <<SaveFig(<<gif_name>>), PrintMsg(<<gif_name>>)>>

save_gif_finish ==
    /\ anim.mode = "saving"
    /\ anim.next >= Frames(t)
    /\ io' = io \o SaveEffects(anim.gif_name)
    /\ call' = [call EXCEPT !.status = "ok"]
    /\ anim' = [anim EXCEPT !.mode = "shown", !.next = 0]
    /\ RenderFrame
    /\ UNCHANGED fig


----------------------------------------------------------------------------
(* create_multiple_snapshots(X, Y, t, u, snapshot_times, save_dir)         *)
(* An optional list is [some |-> FALSE] for None, else [some |-> TRUE,     *)
(* val |-> the list].                                                      *)
NoList == [some |-> FALSE, val |-> <<>>]
SomeList(l) == [some |-> TRUE, val |-> l]

DefaultSnapshotsCeil(tt) ==
    <<0, (Len(tt) + 2) \div 3, (2 * Len(tt) + 2) \div 3, Len(tt) - 1>>

DefaultSnapshots(tt) ==
    <<0, Len(tt) \div 3, (2 * Len(tt)) \div 3, Len(tt) - 1>>

GridCols(n) == Min2(2, n)

GridRowsFloor(n, cols) == n \div cols

GridRows(n, cols) == (n + cols - 1) \div cols

SnapshotAxes(uu, tt, time_idx, scale) ==
    [collections |-> <<Filled(PyIndex(uu, time_idx), FixedScale(scale)),
                       Lines(PyIndex(uu, time_idx))>>,
     title |-> TimeTitle(PyIndex(tt, time_idx)),
     visible |-> TRUE]

(* for i, time_idx in enumerate(snapshot_times): ... ; stops at the first  *)
(* index the array access rejects.                                         *)
RECURSIVE DrawSnapshots(_, _, _, _, _, _)
DrawSnapshots(axes, uu, tt, times, scale, i) ==
    IF i > Len(times) THEN [axes |-> axes, status |-> "ok"]
    ELSE IF ~InRange(uu, times[i]) THEN [axes |-> axes, status |-> "IndexError"]
    ELSE DrawSnapshots([axes EXCEPT ![i] = SnapshotAxes(uu, tt, times[i], scale)],
                       uu, tt, times, scale, i + 1)

(* for i in range(len(snapshot_times), len(axes)): axes[i].set_visible(False) *)
HideEmpty(axes, n) ==
    [i \in 1..Len(axes) |-> IF i > n THEN [axes[i] EXCEPT !.visible = FALSE]
                            ELSE axes[i]]

SnapshotPath(save_dir, timestamp) == <<save_dir, "snapshots_" \o timestamp \o ".png">>

SnapshotEffectsEarlySave(save_dir, timestamp, status) ==
    <<MakeDirs(<<save_dir>>),
      SaveFig(SnapshotPath(save_dir, timestamp)),
      PrintMsg(SnapshotPath(save_dir, timestamp))>>

SnapshotEffects(save_dir, timestamp, status) ==
    IF status = "ok"
    THEN <<MakeDirs(<<save_dir>>),
           SaveFig(SnapshotPath(save_dir, timestamp)),
           PrintMsg(SnapshotPath(save_dir, timestamp))>>
    ELSE <<MakeDirs(<<save_dir>>)>>

create_multiple_snapshots(snapshot_times, save_dir, timestamp) ==
    /\ CanCall
    /\ LET times == IF snapshot_times.some THEN snapshot_times.val
                    ELSE DefaultSnapshots(t)
           n_plots == Len(times)
           cols == GridCols(n_plots)
           args == [given |-> snapshot_times.some, snapshot_times |-> times,
                    save_dir |-> save_dir]
       IN  IF cols = 0
           THEN /\ fig' = NoFig
                /\ io' = <<MakeDirs(<<save_dir>>)>>
                /\ call' = [op |-> "create_multiple_snapshots",
                            status |-> "ZeroDivisionError", args |-> args]
           ELSE LET rows == GridRows(n_plots, cols)
                    f == Subplots(rows, cols,
                                  <<(figsize[1] * cols) \div 2,
                                    (figsize[2] * rows) \div 2>>, dpi)
                IN  \E scale \in {GlobalScale(u)} :
                    \E drawn \in {DrawSnapshots(f.axes, u, t, times, scale, 1)} :
                      /\ fig' = IF drawn.status = "ok"
                                THEN [f EXCEPT
                                       !.axes = HideEmpty(drawn.axes, n_plots),
                                       !.colorbar = n_plots]
                                ELSE [f EXCEPT !.axes = drawn.axes]
                      /\ io' = SnapshotEffects(save_dir, timestamp, drawn.status)
                      /\ call' = [op |-> "create_multiple_snapshots",
                                  status |-> drawn.status, args |-> args]
    /\ anim' = NoAnim
    /\ RenderFrame

----------------------------------------------------------------------------
(* plt.show() returning: the event loop has run and the figure is closed.  *)
RenderOps == {"create_static_contour", "create_animated_contour",
              "create_multiple_snapshots"}

plt_show ==
    /\ call.op \in RenderOps
    /\ call.status = "ok"
    /\ fig' = NoFig
    /\ anim' = NoAnim
    /\ io' = <<>>
    /\ call' = [op |-> "show", status |-> "ok", args |-> <<>>]
    /\ RenderFrame

----------------------------------------------------------------------------
(* The inputs explored *)
SampleNts == (1..MaxNt) \cup {DemoNt}
TimeIdxs == (0 - Len(u) - IdxSlack)..(Len(u) + IdxSlack)
SavePaths == {NONE, "", "static_contour.png"}
GifNames == {"pde_evolution.gif"}
SaveDirs == {"snapshots"}
Timestamps == {"20250101_000000", "20250101_000001"}
SnapChoices == {-1, 0, Len(u)}
SnapLists == UNION {[1..n -> SnapChoices] : n \in 0..MaxSnaps}

Next ==
    \/ \E nx \in 1..MaxNx, ny \in 1..MaxNy, nt \in SampleNts :
          generate_sample_data(nx, ny, nt)
    \/ \E field \in ExtFields : LoadExternal(field)
    \/ CanCall /\ \E time_idx \in TimeIdxs, save_path \in SavePaths :
          create_static_contour(time_idx, save_path)
    \/ CanCall /\ \E save_gif \in BOOLEAN, gif_name \in GifNames :
          create_animated_contour(save_gif, gif_name)
    \/ animate
    \/ save_gif_finish
    \/ CanCall /\ \E l \in SnapLists, d \in SaveDirs, ts \in Timestamps :
          create_multiple_snapshots(SomeList(l), d, ts)
    \/ CanCall /\ \E d \in SaveDirs, ts \in Timestamps :
          create_multiple_snapshots(NoList, d, ts)
    \/ plt_show

Spec == Init /\ [][Next]_vars


----------------------------------------------------------------------------
(* Properties *)
nt == Len(t)

(* s is exactly (min, max) over every entry of the field tensor u *)
IsGlobalScale(s) ==
    /\ ~s.auto
    /\ \E i \in DOMAIN u : \E j \in DOMAIN u[i] : \E k \in DOMAIN u[i][j] :
          u[i][j][k] = s.vmin
    /\ \E i \in DOMAIN u : \E j \in DOMAIN u[i] : \E k \in DOMAIN u[i][j] :
          u[i][j][k] = s.vmax
    /\ \A i \in DOMAIN u : \A j \in DOMAIN u[i] : \A k \in DOMAIN u[i][j] :
          s.vmin <= u[i][j][k] /\ u[i][j][k] <= s.vmax

FilledOf(ax) == {ax.collections[i] : i \in {n \in DOMAIN ax.collections :
                                            ax.collections[n].kind = "contourf"}}

(* C1: in create_animated_contour and create_multiple_snapshots the colour *)
(* scale is (min, max) of the whole field u; the initial contour, every    *)
(* frame the callback draws (any frame, any pass) and every snapshot       *)
(* subplot (any indices) is drawn with exactly that scale.                 *)
C1_GlobalColourScale ==
    /\ call.op = "create_animated_contour" =>
          /\ IsGlobalScale([auto |-> FALSE, vmin |-> anim.vmin, vmax |-> anim.vmax])
          /\ \A c \in FilledOf(fig.axes[1]) : IsGlobalScale(c.scale)
    /\ call.op = "create_multiple_snapshots" =>
          \A i \in DOMAIN fig.axes :
             \A c \in FilledOf(fig.axes[i]) : IsGlobalScale(c.scale)

(* A frame drawn by the callback whose own minimum and maximum both differ *)
(* from the scale it was drawn with.                                       *)
C1_Witness ==
    /\ call.op = "create_animated_contour"
    /\ Len(anim.pass) >= 2
    /\ \E c \in FilledOf(fig.axes[1]) :
          \A j \in DOMAIN c.z : \A k \in DOMAIN c.z[j] :
             c.scale.vmin < c.z[j][k] /\ c.z[j][k] < c.scale.vmax

(* C2 as stated: create_static_contour with any time_index outside [0, nt) *)
(* raises an index error and writes no file.                               *)
C2_OutsideZeroToNtRaises ==
    (call.op = "create_static_contour"
       /\ ~(0 <= call.args.time_idx /\ call.args.time_idx < nt))
    => (call.status = "IndexError" /\ io = <<>>)

(* C2 amended: create_static_contour with a time_index outside [-nt, nt)   *)
(* raises an index error and writes no file, even when a path is given; a  *)
(* time_index in [-nt, 0) raises nothing and draws slice u[nt + index].    *)
C2_OutsideNumpyRangeRaises ==
    call.op = "create_static_contour" =>
      LET i == call.args.time_idx
      IN  /\ (i < 0 - nt \/ i >= nt) => (call.status = "IndexError" /\ io = <<>>)
          /\ (0 - nt <= i /\ i < 0) =>
               /\ call.status = "ok"
               /\ \A n \in DOMAIN fig.axes[1].collections :
                     fig.axes[1].collections[n].z = u[nt + i + 1]
               /\ fig.axes[1].collections # <<>>

C2_Witness ==
    /\ call.op = "create_static_contour"
    /\ call.args.time_idx >= nt
    /\ call.args.save_path = "static_contour.png"
    /\ call.status = "IndexError"
    /\ io = <<>>

(* C3: without snapshot indices and nt >= 1 the indices rendered are       *)
(* exactly 0, nt div 3, (2 nt) div 3, nt - 1 in that order, each in        *)
(* [0, nt), non-decreasing; for nt = 25 they are 0, 8, 16, 24.             *)
C3_DefaultIndices ==
    (call.op = "create_multiple_snapshots" /\ ~call.args.given) =>
      LET idx == call.args.snapshot_times
      IN  /\ idx = <<0, nt \div 3, (2 * nt) \div 3, nt - 1>>
          /\ \A i \in 1..4 : 0 <= idx[i] /\ idx[i] < nt
          /\ \A i \in 1..3 : idx[i] <= idx[i + 1]
          /\ nt = 25 => idx = <<0, 8, 16, 24>>
          /\ call.status = "ok"
          /\ \A i \in 1..4 :
                /\ fig.axes[i].collections # <<>>
                /\ \A n \in DOMAIN fig.axes[i].collections :
                      fig.axes[i].collections[n].z = u[idx[i] + 1]

C3_Witness ==
    /\ call.op = "create_multiple_snapshots"
    /\ ~call.args.given
    /\ nt = 25
    /\ call.args.snapshot_times = <<0, 8, 16, 24>>
    /\ call.status = "ok"

(* The slice Python's u[i] denotes for an index the access accepts *)
SliceAt(i) == IF i >= 0 THEN u[i + 1] ELSE u[nt + i + 1]

(* C4: for a list of n snapshot indices the grid has cols = min(2, n)      *)
(* columns (never more than 2) and rows = ceil(n / cols) rows, so          *)
(* rows * cols >= n; when the call completes, the first n slots show the   *)
(* requested snapshots in request order and exactly the other              *)
(* rows * cols - n slots are hidden; n = 5 gives 2 x 3 with 1 hidden.      *)
C4_SubplotGrid ==
    (call.op = "create_multiple_snapshots" /\ call.status # "ZeroDivisionError") =>
      LET idx == call.args.snapshot_times
          n == Len(idx)
      IN  /\ fig.cols = (IF n < 2 THEN n ELSE 2)
          /\ fig.cols <= 2
          /\ fig.rows * fig.cols >= n
          /\ (fig.rows - 1) * fig.cols < n
          /\ Len(fig.axes) = fig.rows * fig.cols
          /\ call.status = "ok" =>
               /\ \A i \in 1..n :
                     /\ fig.axes[i].visible
                     /\ fig.axes[i].collections # <<>>
                     /\ \A c \in DOMAIN fig.axes[i].collections :
                           fig.axes[i].collections[c].z = SliceAt(idx[i])
               /\ \A i \in (n + 1)..Len(fig.axes) :
                     ~fig.axes[i].visible /\ fig.axes[i].collections = <<>>
               /\ Cardinality({i \in DOMAIN fig.axes : ~fig.axes[i].visible})
                     = fig.rows * fig.cols - n
               /\ n = 5 =>
                     /\ fig.cols = 2 /\ fig.rows = 3
                     /\ Cardinality({i \in DOMAIN fig.axes : ~fig.axes[i].visible}) = 1

C4_Witness ==
    /\ call.op = "create_multiple_snapshots"
    /\ call.status = "ok"
    /\ call.args.snapshot_times = <<0, -1, 0, 0, -1>>
    /\ nt >= 2
    /\ ~fig.axes[6].visible

(* C5: for all nx, ny, nt >= 1 generate_sample_data(nx, ny, nt) returns X  *)
(* and Y of shape (ny, nx), a time vector of length nt and a field of      *)
(* shape (nt, ny, nx).                                                     *)
C5_SampleShapes ==
    call.op = "generate_sample_data" =>
      LET a == call.args
      IN  /\ Len(X) = a.ny /\ \A j \in DOMAIN X : Len(X[j]) = a.nx
          /\ Len(Y) = a.ny /\ \A j \in DOMAIN Y : Len(Y[j]) = a.nx
          /\ Len(t) = a.nt
          /\ Len(u) = a.nt
          /\ \A i \in DOMAIN u :
                /\ Len(u[i]) = a.ny
                /\ \A j \in DOMAIN u[i] : Len(u[i][j]) = a.nx
          /\ Len(u) = Len(t)
          /\ \A i \in DOMAIN u :
                /\ Len(u[i]) = Len(X)
                /\ \A j \in DOMAIN u[i] : Len(u[i][j]) = Len(X[j])

C5_Witness ==
    /\ call.op = "generate_sample_data"
    /\ call.args.nx = 1 /\ call.args.ny = 2 /\ call.args.nt = 3
    /\ Len(X) = 2 /\ Len(X[1]) = 1
    /\ Len(u) = 3

C7_InputsAndConfigUntouched ==
    [][(loaded => UNCHANGED <<X, Y, t, u>>)
       /\ UNCHANGED <<figsize, dpi, custom_cmap>>]_vars

C7_Witness ==
    /\ call.op = "create_animated_contour"
    /\ call.status = "ok"
    /\ call.args.save_gif
    /\ Len(anim.pass) >= 1
    /\ figsize = <<12, 8>>

(* C8: a successful create_static_contour writes exactly one image file,   *)
(* at the given path, followed by the confirmation message, iff a path is  *)
(* given (None and the empty string are no path); a successful             *)
(* create_animated_contour writes the animation file iff the save flag is  *)
(* set; otherwise neither writes a file; a create_multiple_snapshots call  *)
(* that completes always writes exactly one image file in the directory.   *)
Writes == {i \in DOMAIN io : io[i].ev = "savefig"}

C8_FilesWritten ==
    /\ (call.op = "create_static_contour" /\ call.status = "ok") =>
          LET p == call.args.save_path
          IN  IF p # "None" /\ p # ""
              THEN io = <<[ev |-> "savefig", path |-> <<p>>],
                          [ev |-> "print", path |-> <<p>>]>>
              ELSE io = <<>>
    /\ (call.op = "create_animated_contour" /\ call.status = "ok") =>
          IF call.args.save_gif
          THEN io = <<[ev |-> "savefig", path |-> <<call.args.gif_name>>],
                      [ev |-> "print", path |-> <<call.args.gif_name>>]>>
          ELSE io = <<>>
    /\ (call.op = "create_animated_contour" /\ call.status = "running") => io = <<>>
    /\ (call.op = "create_multiple_snapshots" /\ call.status = "ok") =>
          /\ Cardinality(Writes) = 1
          /\ \A i \in Writes :
                /\ Len(io[i].path) = 2
                /\ io[i].path[1] = call.args.save_dir
                /\ i < Len(io) /\ io[i + 1] = [ev |-> "print", path |-> io[i].path]

C8_Witness ==
    /\ call.op = "create_static_contour"
    /\ call.status = "ok"
    /\ call.args.save_path = ""
    /\ io = <<>>

(* C9: every invocation of the frame callback removes all collections left *)
(* on the axes by the previous drawing before it draws, so afterwards the  *)
(* axes hold only the filled contour and the contour lines of the current  *)
(* frame, and the number of collections does not grow.                     *)
C9_CollectionsReplaced ==
    call.op = "create_animated_contour" =>
      LET cs == fig.axes[1].collections
      IN  IF anim.pass = <<>>
          THEN cs = <<[kind |-> "contourf", z |-> u[1],
                       scale |-> [auto |-> FALSE, vmin |-> anim.vmin,
                                  vmax |-> anim.vmax]]>>
          ELSE LET frame == anim.pass[Len(anim.pass)]
               IN  /\ Len(cs) = 2
                   /\ cs[1].kind = "contourf" /\ cs[1].z = u[frame + 1]
                   /\ cs[2].kind = "contour" /\ cs[2].z = u[frame + 1]

C9_Witness ==
    /\ call.op = "create_animated_contour"
    /\ Len(anim.pass) = 3
    /\ Len(fig.axes[1].collections) = 2
    /\ u[3] # u[2]

(* C10: create_multiple_snapshots creates the output directory before any  *)
(* snapshot index is used: when some requested index is one the array      *)
(* access rejects (outside [-nt, nt)), the call ends in the index error,   *)
(* no image file is written, yet the directory has been created; the       *)
(* image is written only after every requested snapshot has been drawn.    *)
C10_DirectoryBeforeIndices ==
    call.op = "create_multiple_snapshots" =>
      LET idx == call.args.snapshot_times
          bad == {i \in DOMAIN idx : idx[i] < 0 - nt \/ idx[i] >= nt}
      IN  /\ io # <<>>
          /\ io[1] = [ev |-> "makedirs", path |-> <<call.args.save_dir>>]
          /\ bad # {} =>
               /\ call.status = "IndexError"
               /\ Writes = {}
               /\ io = <<[ev |-> "makedirs", path |-> <<call.args.save_dir>>]>>
               /\ \A i \in DOMAIN fig.axes :
                     (fig.axes[i].collections # <<>>) <=> (\A b \in bad : i < b)
          /\ Writes # {} =>
               /\ call.status = "ok"
               /\ bad = {}
               /\ \A i \in DOMAIN idx : fig.axes[i].collections # <<>>

C10_Witness ==
    /\ call.op = "create_multiple_snapshots"
    /\ call.status = "IndexError"
    /\ io = <<[ev |-> "makedirs", path |-> <<"snapshots">>]>>
    /\ Len(call.args.snapshot_times) = 3
    /\ fig.axes[2].collections # <<>>
    /\ fig.axes[3].collections = <<>>

====
